---- MODULE Spec2Model ----
(***************************************************************************)
(* openweather_exporter (src/main.go): a collector that polls the          *)
(* OpenWeather current-weather and air-pollution endpoints, writes the     *)
(* readings into Prometheus gauge vectors, and serves them on /metrics.    *)
(*                                                                         *)
(* Threads: the main goroutine (initial updateMetrics, then                *)
(* ListenAndServe), the ticker goroutine (updateMetrics per tick), the     *)
(* timer feeding ticker.C, and a /metrics request handler.                 *)
(***************************************************************************)
EXTENDS Integers, Sequences, FiniteSets, TLC

VARIABLES
    registry,       \* the gauge vectors: a set of [series, labels, value]
    pc,             \* [Procs -> position in main / the ticker loop / updateMetrics]
    frame,          \* [Procs -> locals of the running updateMetrics call]
    tickerC,        \* number of ticks buffered in ticker.C (capacity 1)
    cycles,         \* number of updateMetrics calls started
    scrapePos,      \* /metrics handler: 0 idle, i next collector to gather
    snap,           \* /metrics handler: the batch of entries just gathered
    regAtStart,     \* history: the registry when the running cycle started
    issued,         \* history: upstream requests issued by the running cycle
    completedSets,  \* history: every [series, labels, value] a Set has stored
    lastWeather,    \* history: the body of the latest successful weather fetch
    snapHead        \* history: the first batch of the response being built

vars == <<registry, pc, frame, tickerC, cycles, scrapePos, snap,
          regAtStart, issued, completedSets, lastWeather, snapHead>>

----------------------------------------------------------------------------
(* Bounds and sample inputs *)

MaxCycles == 2

StatusOK == 200

Readings == {1, 2}

StatusCodes == {StatusOK, 201, 401}

Procs == {"main", "ticker"}

----------------------------------------------------------------------------
(* Metric vectors, in the order init() registers them *)

WeatherSeries ==
    << "ow_weather_temp", "ow_weather_feels_like", "ow_weather_temp_min",
       "ow_weather_temp_max", "ow_weather_pressure", "ow_weather_humidity",
       "ow_weather_sea_level", "ow_weather_grnd_level", "ow_weather_visibility",
       "ow_weather_wind_speed", "ow_weather_wind_deg", "ow_weather_clouds" >>

owWeatherCondition == "ow_weather_condition"

PollutionSeries ==
    << "ow_air_pollution_aqi", "ow_air_pollution_co", "ow_air_pollution_no",
       "ow_air_pollution_no2", "ow_air_pollution_o3", "ow_air_pollution_so2",
       "ow_air_pollution_pm2_5", "ow_air_pollution_pm10", "ow_air_pollution_nh3" >>

Registered == WeatherSeries \o <<owWeatherCondition>> \o PollutionSeries

NumWeather == Len(WeatherSeries)

NumPollution == Len(PollutionSeries)

NumRegistered == Len(Registered)

Range(s) == { s[i] : i \in DOMAIN s }

----------------------------------------------------------------------------
(* strconv.Itoa: the decimal string of an int *)

Digit(d) ==
    CASE d = 0 -> "0" [] d = 1 -> "1" [] d = 2 -> "2" [] d = 3 -> "3"
      [] d = 4 -> "4" [] d = 5 -> "5" [] d = 6 -> "6" [] d = 7 -> "7"
      [] d = 8 -> "8" [] d = 9 -> "9"

RECURSIVE Decimal(_)
Decimal(n) == IF n < 10 THEN Digit(n) ELSE Decimal(n \div 10) \o Digit(n % 10)

Itoa(n) == IF n < 0 THEN "-" \o Decimal(0 - n) ELSE Decimal(n)

----------------------------------------------------------------------------
(* Upstream payloads (WeatherResponse, AirPollutionResponse) *)

Clouds == [ Main |-> "Clouds", Description |-> "overcast clouds" ]

Rain == [ Main |-> "Rain", Description |-> "light rain" ]

ConditionLists == { <<>>, <<Clouds>>, <<Rain, Clouds>> }

\* Field k of a payload with reading level r; level 0 is Go's zero value.
Scale(r, k) == r * (100 + k)

\* A decoded weather body.
WeatherBody(id, r, conds) ==
    [ ID |-> id,
      Weather |-> conds,
      Main |-> [ Temp |-> Scale(r, 1), FeelsLike |-> Scale(r, 2),
                 TempMin |-> Scale(r, 3), TempMax |-> Scale(r, 4),
                 Pressure |-> Scale(r, 5), Humidity |-> Scale(r, 6),
                 SeaLevel |-> Scale(r, 7), GrndLevel |-> Scale(r, 8) ],
      Visibility |-> Scale(r, 9),
      Wind |-> [ Speed |-> Scale(r, 10), Deg |-> Scale(r, 11) ],
      Clouds |-> [ All |-> Scale(r, 12) ] ]

\* var weather WeatherResponse
ZeroWeather == WeatherBody(0, 0, <<>>)

\* One entry of AirPollutionResponse.List.
PollutionEntry(r) ==
    [ Main |-> [ AQI |-> r ],
      Components |-> [ CO |-> Scale(r, 21), NO |-> Scale(r, 22),
                       NO2 |-> Scale(r, 23), O3 |-> Scale(r, 24),
                       SO2 |-> Scale(r, 25), PM25 |-> Scale(r, 26),
                       PM10 |-> Scale(r, 27), NH3 |-> Scale(r, 28) ] ]

PollutionBody(list) == [ List |-> list ]

\* var pollution AirPollutionResponse
ZeroPollution == PollutionBody(<<>>)

PollutionLists ==
    { <<>>, <<PollutionEntry(1)>>, <<PollutionEntry(2), PollutionEntry(1)>> }

\* What http.Get hands back: a transport error, or a status and a body that
\* json.Decode accepts (decodes, with the struct it fills) or rejects.
Json(value) == [ decodes |-> TRUE, value |-> value ]

NotJson(zero) == [ decodes |-> FALSE, value |-> zero ]

HttpResponse(status, body) == [ arrived |-> TRUE, status |-> status, body |-> body ]

WeatherTransportError == [ arrived |-> FALSE, status |-> 0, body |-> NotJson(ZeroWeather) ]

PollutionTransportError == [ arrived |-> FALSE, status |-> 0, body |-> NotJson(ZeroPollution) ]

\* Station 42 with every reading and condition list, and a second station.
WeatherBodies ==
    { WeatherBody(42, r, c) : r \in Readings, c \in ConditionLists }
      \cup { WeatherBody(7, 1, <<Clouds>>) }

WeatherResponses ==
    {WeatherTransportError}
      \cup { HttpResponse(StatusOK, Json(b)) : b \in WeatherBodies }
      \cup { HttpResponse(StatusOK, NotJson(ZeroWeather)) }
      \cup { HttpResponse(s, Json(WeatherBody(42, 1, <<Clouds>>))) :
                s \in StatusCodes \ {StatusOK} }

PollutionResponses ==
    {PollutionTransportError}
      \cup { HttpResponse(StatusOK, Json(PollutionBody(l))) : l \in PollutionLists }
      \cup { HttpResponse(StatusOK, NotJson(ZeroPollution)) }
      \cup { HttpResponse(s, Json(PollutionBody(<<PollutionEntry(1)>>))) :
                s \in StatusCodes \ {StatusOK} }

\* The responses the whole-process specification draws from.
ServeWeatherResponses ==
    { HttpResponse(401, Json(WeatherBody(42, 1, <<Clouds>>))),
      HttpResponse(StatusOK, Json(WeatherBody(42, 1, <<Clouds>>))),
      HttpResponse(StatusOK, Json(WeatherBody(42, 2, <<Rain, Clouds>>))) }

ServePollutionResponses ==
    { PollutionTransportError,
      HttpResponse(StatusOK, Json(PollutionBody(<<PollutionEntry(1)>>))) }

\* The responses the fair specification draws from.
LiveWeatherResponses ==
    { HttpResponse(401, Json(WeatherBody(42, 1, <<Clouds>>))),
      HttpResponse(StatusOK, Json(WeatherBody(42, 1, <<Clouds>>))) }

LivePollutionResponses ==
    { PollutionTransportError,
      HttpResponse(StatusOK, Json(PollutionBody(<<PollutionEntry(1)>>))) }

----------------------------------------------------------------------------
(* Errors returned by the fetch functions *)

NoError == [ kind |-> "nil", code |-> 0 ]

ErrTransport == [ kind |-> "transport", code |-> 0 ]

ErrStatus(code) == [ kind |-> "status", code |-> code ]

ErrDecode == [ kind |-> "decode", code |-> 0 ]

\* FetchError with the status check widened to any 2xx.
FetchErrorAny2xx(r) ==
    IF ~r.arrived THEN ErrTransport
    ELSE IF r.status < 200 \/ r.status > 299 THEN ErrStatus(r.status)
    ELSE IF ~r.body.decodes THEN ErrDecode
    ELSE NoError

\* The checks between http.Get and the metric writes, in the code's order.
FetchError(r) ==
    IF ~r.arrived THEN ErrTransport
    ELSE IF r.status # StatusOK THEN ErrStatus(r.status)
    ELSE IF ~r.body.decodes THEN ErrDecode
    ELSE NoError

----------------------------------------------------------------------------
(* The gauge vectors *)

Entry(series, labels, value) == [ series |-> series, labels |-> labels, value |-> value ]

Key(e) == << e.series, e.labels >>

Keys(reg) == { Key(e) : e \in reg }

HasKey(reg, series, labels) == << series, labels >> \in Keys(reg)

\* GaugeVec.WithLabelValues: the child for the labels, created at 0 if new.
WithLabelValues(reg, series, labels) ==
    IF HasKey(reg, series, labels) THEN reg
    ELSE reg \cup { Entry(series, labels, 0) }

\* The value stored under a key (0 for a key that is absent).
ValueAt(reg, series, labels) ==
    IF HasKey(reg, series, labels)
    THEN (CHOOSE e \in reg : Key(e) = << series, labels >>).value
    ELSE 0

\* Gauge.Add in place of Gauge.Set: the value is added to the stored one.
GaugeAdd(reg, series, labels, value) ==
    { e \in reg : Key(e) # << series, labels >> }
      \cup { Entry(series, labels, ValueAt(reg, series, labels) + value) }

\* A Set that appends a sample beside the stored one instead of replacing it.
GaugeSetKeepOld(reg, series, labels, value) ==
    reg \cup { Entry(series, labels, value) }

\* Gauge.Set on the child for the labels: an atomic store of the value.
GaugeSet(reg, series, labels, value) ==
    { e \in reg : Key(e) # << series, labels >> } \cup { Entry(series, labels, value) }

\* The value the code passes to the i-th weather gauge.
WeatherField(w, i) ==
    CASE i = 1 -> w.Main.Temp
      [] i = 2 -> w.Main.FeelsLike
      [] i = 3 -> w.Main.TempMin
      [] i = 4 -> w.Main.TempMax
      [] i = 5 -> w.Main.Pressure
      [] i = 6 -> w.Main.Humidity
      [] i = 7 -> w.Main.SeaLevel
      [] i = 8 -> w.Main.GrndLevel
      [] i = 9 -> w.Visibility
      [] i = 10 -> w.Wind.Speed
      [] i = 11 -> w.Wind.Deg
      [] i = 12 -> w.Clouds.All

\* The value the code passes to the i-th pollution gauge, from data = List[0].
PollutionField(data, i) ==
    CASE i = 1 -> data.Main.AQI
      [] i = 2 -> data.Components.CO
      [] i = 3 -> data.Components.NO
      [] i = 4 -> data.Components.NO2
      [] i = 5 -> data.Components.O3
      [] i = 6 -> data.Components.SO2
      [] i = 7 -> data.Components.PM25
      [] i = 8 -> data.Components.PM10
      [] i = 9 -> data.Components.NH3

----------------------------------------------------------------------------
(* Call frames of updateMetrics *)

NoResponse == WeatherTransportError

\* The locals of one updateMetrics call: resp and err of the fetch under way,
\* the decoded bodies, the station, and the index i of the gauge being
\* written.  The decoded bodies stay readable until updateMetrics returns.
EmptyFrame ==
    [ i |-> 0, resp |-> NoResponse, weather |-> ZeroWeather, station |-> "",
      pollution |-> ZeroPollution, err |-> NoError ]

\* Positions inside updateMetrics and the two fetch functions.
Refreshing ==
    { "weather_get", "weather_with", "weather_set", "cond_if", "cond_with",
      "cond_set", "weather_return", "weather_err", "pollution_get",
      "pollution_with", "pollution_set", "pollution_err", "update_return" }

\* Where a caller continues when updateMetrics returns.
Continuation(p) == IF p = "main" THEN "main_go" ELSE "ticker_wait"

\* The collector is Idle when no goroutine is inside updateMetrics.
Idle == \A p \in Procs : pc[p] \notin Refreshing

Init ==
    /\ registry = {}
    /\ pc = [ p \in Procs |-> IF p = "main" THEN "main_initial" ELSE "ticker_off" ]
    /\ frame = [ p \in Procs |-> EmptyFrame ]
    /\ tickerC = 0
    /\ cycles = 0
    /\ scrapePos = 0
    /\ snap = {}
    /\ regAtStart = {}
    /\ issued = <<>>
    /\ completedSets = {}
    /\ lastWeather = ZeroWeather
    /\ snapHead = {}

server == <<scrapePos, snap, snapHead>>

----------------------------------------------------------------------------
(* updateMetrics *)

\* updateMetrics is entered and fetchWeatherData sends its GET.
UpdateMetricsCall(p) ==
    /\ pc' = [pc EXCEPT ![p] = "weather_get"]
    /\ frame' = [frame EXCEPT ![p] = EmptyFrame]
    /\ cycles' = cycles + 1
    /\ regAtStart' = registry
    /\ issued' = <<"weather">>

\* main: the initial fetch.
InitialFetch ==
    /\ pc["main"] = "main_initial"
    /\ cycles < MaxCycles
    /\ UpdateMetricsCall("main")
    /\ UNCHANGED <<registry, tickerC, completedSets, lastWeather, server>>

\* WeatherResponse that sends the pollution GET as soon as the weather body
\* is decoded, before the weather gauges are written.
WeatherResponseEagerPollution(p, r) ==
    /\ pc[p] = "weather_get"
    /\ LET e == FetchError(r) IN
        IF e # NoError
        THEN /\ frame' = [frame EXCEPT ![p].resp = r, ![p].err = e]
             /\ pc' = [pc EXCEPT ![p] = "weather_err"]
             /\ lastWeather' = lastWeather
             /\ issued' = issued
        ELSE /\ frame' = [frame EXCEPT ![p].resp = r,
                                       ![p].weather = r.body.value,
                                       ![p].station = Itoa(r.body.value.ID),
                                       ![p].i = 1]
             /\ pc' = [pc EXCEPT ![p] = "weather_with"]
             /\ lastWeather' = r.body.value
             /\ issued' = Append(issued, "pollution")
    /\ UNCHANGED <<registry, tickerC, cycles, regAtStart, completedSets, server>>

\* http.Get(weatherURL) returns r; the status and decode checks follow.
WeatherResponse(p, r) ==
    /\ pc[p] = "weather_get"
    /\ LET e == FetchError(r) IN
        IF e # NoError
        THEN /\ frame' = [frame EXCEPT ![p].resp = r, ![p].err = e]
             /\ pc' = [pc EXCEPT ![p] = "weather_err"]
             /\ lastWeather' = lastWeather
        ELSE /\ frame' = [frame EXCEPT ![p].resp = r,
                                       ![p].weather = r.body.value,
                                       ![p].station = Itoa(r.body.value.ID),
                                       ![p].i = 1]
             /\ pc' = [pc EXCEPT ![p] = "weather_with"]
             /\ lastWeather' = r.body.value
    /\ UNCHANGED <<registry, tickerC, cycles, regAtStart, issued, completedSets, server>>

\* owWeatherX.WithLabelValues(station)
WeatherWith(p) ==
    /\ pc[p] = "weather_with"
    /\ registry' = WithLabelValues(registry, WeatherSeries[frame[p].i], <<frame[p].station>>)
    /\ pc' = [pc EXCEPT ![p] = "weather_set"]
    /\ UNCHANGED <<frame, tickerC, cycles, regAtStart, issued, completedSets, lastWeather, server>>

\* WeatherSet with the four writes after weather.Main left out.
WeatherSetMainOnly(p) ==
    /\ pc[p] = "weather_set"
    /\ LET f == frame[p]
           v == WeatherField(f.weather, f.i)
       IN /\ registry' = GaugeSet(registry, WeatherSeries[f.i], <<f.station>>, v)
          /\ completedSets' =
                completedSets \cup { Entry(WeatherSeries[f.i], <<f.station>>, v) }
          /\ IF f.i < 8
             THEN /\ frame' = [frame EXCEPT ![p].i = f.i + 1]
                  /\ pc' = [pc EXCEPT ![p] = "weather_with"]
             ELSE /\ frame' = [frame EXCEPT ![p].i = 0]
                  /\ pc' = [pc EXCEPT ![p] = "cond_if"]
    /\ UNCHANGED <<tickerC, cycles, regAtStart, issued, lastWeather, server>>

\* .Set(weather.X)
WeatherSet(p) ==
    /\ pc[p] = "weather_set"
    /\ LET f == frame[p]
           v == WeatherField(f.weather, f.i)
       IN /\ registry' = GaugeSet(registry, WeatherSeries[f.i], <<f.station>>, v)
          /\ completedSets' =
                completedSets \cup { Entry(WeatherSeries[f.i], <<f.station>>, v) }
          /\ IF f.i < NumWeather
             THEN /\ frame' = [frame EXCEPT ![p].i = f.i + 1]
                  /\ pc' = [pc EXCEPT ![p] = "weather_with"]
             ELSE /\ frame' = [frame EXCEPT ![p].i = 0]
                  /\ pc' = [pc EXCEPT ![p] = "cond_if"]
    /\ UNCHANGED <<tickerC, cycles, regAtStart, issued, lastWeather, server>>

\* ConditionIf that drops the station's stored conditions when the list is empty.
ConditionIfClears(p) ==
    /\ pc[p] = "cond_if"
    /\ pc' = [pc EXCEPT ![p] =
                IF Len(frame[p].weather.Weather) > 0 THEN "cond_with" ELSE "weather_return"]
    /\ registry' =
          IF Len(frame[p].weather.Weather) > 0 THEN registry
          ELSE { e \in registry :
                    ~(e.series = owWeatherCondition /\ e.labels[1] = frame[p].station) }
    /\ UNCHANGED <<frame, tickerC, cycles, regAtStart, issued, completedSets, lastWeather, server>>

\* if len(weather.Weather) > 0
ConditionIf(p) ==
    /\ pc[p] = "cond_if"
    /\ pc' = [pc EXCEPT ![p] =
                IF Len(frame[p].weather.Weather) > 0 THEN "cond_with" ELSE "weather_return"]
    /\ UNCHANGED <<registry, frame, tickerC, cycles, regAtStart, issued, completedSets, lastWeather, server>>

\* The labels of the condition gauge: station, Weather[0].Main, Weather[0].Description.
ConditionLabels(f) ==
    << f.station, f.weather.Weather[1].Main, f.weather.Weather[1].Description >>

\* ConditionWith preceded by owWeatherCondition.Reset().
ConditionWithReset(p) ==
    /\ pc[p] = "cond_with"
    /\ registry' =
          WithLabelValues({ e \in registry : e.series # owWeatherCondition },
                          owWeatherCondition, ConditionLabels(frame[p]))
    /\ pc' = [pc EXCEPT ![p] = "cond_set"]
    /\ UNCHANGED <<frame, tickerC, cycles, regAtStart, issued, completedSets, lastWeather, server>>

\* owWeatherCondition.WithLabelValues(station, main, description)
ConditionWith(p) ==
    /\ pc[p] = "cond_with"
    /\ registry' = WithLabelValues(registry, owWeatherCondition, ConditionLabels(frame[p]))
    /\ pc' = [pc EXCEPT ![p] = "cond_set"]
    /\ UNCHANGED <<frame, tickerC, cycles, regAtStart, issued, completedSets, lastWeather, server>>

\* .Set(1)
ConditionSet(p) ==
    /\ pc[p] = "cond_set"
    /\ registry' = GaugeSet(registry, owWeatherCondition, ConditionLabels(frame[p]), 1)
    /\ completedSets' =
          completedSets \cup { Entry(owWeatherCondition, ConditionLabels(frame[p]), 1) }
    /\ pc' = [pc EXCEPT ![p] = "weather_return"]
    /\ UNCHANGED <<frame, tickerC, cycles, regAtStart, issued, lastWeather, server>>

\* LogWeatherError without the return: the pollution fetch goes ahead.
LogWeatherErrorNoReturn(p) ==
    /\ pc[p] = "weather_err"
    /\ pc' = [pc EXCEPT ![p] = "pollution_get"]
    /\ issued' = Append(issued, "pollution")
    /\ UNCHANGED <<registry, frame, tickerC, cycles, regAtStart, completedSets, lastWeather, server>>

\* fetchWeatherData failed: log the error and return.
LogWeatherError(p) ==
    /\ pc[p] = "weather_err"
    /\ pc' = [pc EXCEPT ![p] = Continuation(p)]
    /\ frame' = [frame EXCEPT ![p] = EmptyFrame]
    /\ UNCHANGED <<registry, tickerC, cycles, regAtStart, issued, completedSets, lastWeather, server>>

\* PollutionRequest that passes the station the pollution gauges already
\* carry, when there is one, in place of the station just returned.
PollutionRequestStaleStation(p) ==
    /\ pc[p] = "weather_return"
    /\ pc' = [pc EXCEPT ![p] = "pollution_get"]
    /\ issued' = Append(issued, "pollution")
    /\ frame' = [frame EXCEPT ![p].station =
                    IF \E e \in registry : e.series = PollutionSeries[1]
                    THEN (CHOOSE e \in registry : e.series = PollutionSeries[1]).labels[1]
                    ELSE @]
    /\ UNCHANGED <<registry, tickerC, cycles, regAtStart, completedSets, lastWeather, server>>

\* fetchWeatherData returned (station, nil): fetchAirPollutionData sends its GET.
PollutionRequest(p) ==
    /\ pc[p] = "weather_return"
    /\ pc' = [pc EXCEPT ![p] = "pollution_get"]
    /\ issued' = Append(issued, "pollution")
    /\ UNCHANGED <<registry, frame, tickerC, cycles, regAtStart, completedSets, lastWeather, server>>

\* PollutionResponse that marks the station's pollution gauges 0 on failure.
PollutionResponseZeroing(p, r) ==
    /\ pc[p] = "pollution_get"
    /\ LET e == FetchError(r) IN
        IF e # NoError
        THEN /\ frame' = [frame EXCEPT ![p].resp = r, ![p].err = e]
             /\ pc' = [pc EXCEPT ![p] = "pollution_err"]
             /\ registry' =
                   { IF x.series \in Range(PollutionSeries) /\ x.labels = <<frame[p].station>>
                     THEN Entry(x.series, x.labels, 0) ELSE x : x \in registry }
        ELSE /\ frame' = [frame EXCEPT ![p].resp = r,
                                       ![p].pollution = r.body.value,
                                       ![p].i = IF Len(r.body.value.List) > 0 THEN 1 ELSE 0]
             /\ pc' = [pc EXCEPT ![p] =
                          IF Len(r.body.value.List) > 0
                          THEN "pollution_with" ELSE "update_return"]
             /\ registry' = registry
    /\ UNCHANGED <<tickerC, cycles, regAtStart, issued, completedSets, lastWeather, server>>

\* http.Get(pollutionURL) returns r; the status and decode checks follow,
\* then if len(pollution.List) > 0.
PollutionResponse(p, r) ==
    /\ pc[p] = "pollution_get"
    /\ LET e == FetchError(r) IN
        IF e # NoError
        THEN /\ frame' = [frame EXCEPT ![p].resp = r, ![p].err = e]
             /\ pc' = [pc EXCEPT ![p] = "pollution_err"]
        ELSE /\ frame' = [frame EXCEPT ![p].resp = r,
                                       ![p].pollution = r.body.value,
                                       ![p].i = IF Len(r.body.value.List) > 0 THEN 1 ELSE 0]
             /\ pc' = [pc EXCEPT ![p] =
                          IF Len(r.body.value.List) > 0
                          THEN "pollution_with" ELSE "update_return"]
    /\ UNCHANGED <<registry, tickerC, cycles, regAtStart, issued, completedSets, lastWeather, server>>

\* owAirPollutionX.WithLabelValues(station)
PollutionWith(p) ==
    /\ pc[p] = "pollution_with"
    /\ registry' = WithLabelValues(registry, PollutionSeries[frame[p].i], <<frame[p].station>>)
    /\ pc' = [pc EXCEPT ![p] = "pollution_set"]
    /\ UNCHANGED <<frame, tickerC, cycles, regAtStart, issued, completedSets, lastWeather, server>>

\* PollutionSet with data := pollution.List[len(pollution.List)-1].
PollutionSetLast(p) ==
    /\ pc[p] = "pollution_set"
    /\ LET f == frame[p]
           v == PollutionField(f.pollution.List[Len(f.pollution.List)], f.i)
       IN /\ registry' = GaugeSet(registry, PollutionSeries[f.i], <<f.station>>, v)
          /\ completedSets' =
                completedSets \cup { Entry(PollutionSeries[f.i], <<f.station>>, v) }
          /\ IF f.i < NumPollution
             THEN /\ frame' = [frame EXCEPT ![p].i = f.i + 1]
                  /\ pc' = [pc EXCEPT ![p] = "pollution_with"]
             ELSE /\ frame' = [frame EXCEPT ![p].i = 0]
                  /\ pc' = [pc EXCEPT ![p] = "update_return"]
    /\ UNCHANGED <<tickerC, cycles, regAtStart, issued, lastWeather, server>>

\* .Set(data.X), data := pollution.List[0]
PollutionSet(p) ==
    /\ pc[p] = "pollution_set"
    /\ LET f == frame[p]
           v == PollutionField(f.pollution.List[1], f.i)
       IN /\ registry' = GaugeSet(registry, PollutionSeries[f.i], <<f.station>>, v)
          /\ completedSets' =
                completedSets \cup { Entry(PollutionSeries[f.i], <<f.station>>, v) }
          /\ IF f.i < NumPollution
             THEN /\ frame' = [frame EXCEPT ![p].i = f.i + 1]
                  /\ pc' = [pc EXCEPT ![p] = "pollution_with"]
             ELSE /\ frame' = [frame EXCEPT ![p].i = 0]
                  /\ pc' = [pc EXCEPT ![p] = "update_return"]
    /\ UNCHANGED <<tickerC, cycles, regAtStart, issued, lastWeather, server>>

\* LogPollutionError with log.Fatalf in place of log.Printf: the process exits.
LogPollutionErrorFatal(p) ==
    /\ pc[p] = "pollution_err"
    /\ pc' = [ q \in Procs |-> "exited" ]
    /\ frame' = [frame EXCEPT ![p] = EmptyFrame]
    /\ UNCHANGED <<registry, tickerC, cycles, regAtStart, issued, completedSets, lastWeather, server>>

\* LogPollutionError followed by one more attempt at the pollution request.
LogPollutionErrorRetry(p) ==
    /\ pc[p] = "pollution_err"
    /\ IF Len(issued) < 3
       THEN /\ pc' = [pc EXCEPT ![p] = "pollution_get"]
            /\ frame' = [frame EXCEPT ![p].resp = NoResponse, ![p].err = NoError]
            /\ issued' = Append(issued, "pollution")
       ELSE /\ pc' = [pc EXCEPT ![p] = Continuation(p)]
            /\ frame' = [frame EXCEPT ![p] = EmptyFrame]
            /\ issued' = issued
    /\ UNCHANGED <<registry, tickerC, cycles, regAtStart, completedSets, lastWeather, server>>

\* fetchAirPollutionData failed: log the error; updateMetrics returns.
LogPollutionError(p) ==
    /\ pc[p] = "pollution_err"
    /\ pc' = [pc EXCEPT ![p] = Continuation(p)]
    /\ frame' = [frame EXCEPT ![p] = EmptyFrame]
    /\ UNCHANGED <<registry, tickerC, cycles, regAtStart, issued, completedSets, lastWeather, server>>

\* fetchAirPollutionData returned nil: updateMetrics returns.
UpdateMetricsReturn(p) ==
    /\ pc[p] = "update_return"
    /\ pc' = [pc EXCEPT ![p] = Continuation(p)]
    /\ frame' = [frame EXCEPT ![p] = EmptyFrame]
    /\ UNCHANGED <<registry, tickerC, cycles, regAtStart, issued, completedSets, lastWeather, server>>

----------------------------------------------------------------------------
(* main, the ticker goroutine and the timer *)

\* StartTicker with the go statement placed before the initial fetch.
StartTickerBeforeInitialFetch ==
    /\ \/ /\ pc["main"] = "main_initial"
          /\ pc["ticker"] = "ticker_off"
          /\ pc' = [pc EXCEPT !["ticker"] = "ticker_wait"]
       \/ /\ pc["main"] = "main_go"
          /\ pc' = [pc EXCEPT !["main"] = "main_listen",
                              !["ticker"] = IF @ = "ticker_off" THEN "ticker_wait" ELSE @]
    /\ UNCHANGED <<registry, frame, tickerC, cycles, regAtStart, issued, completedSets, lastWeather, server>>

\* go func() { ticker := time.NewTicker(5 * time.Minute) ... }()
StartTicker ==
    /\ pc["main"] = "main_go"
    /\ pc["ticker"] = "ticker_off"
    /\ pc' = [pc EXCEPT !["main"] = "main_listen", !["ticker"] = "ticker_wait"]
    /\ UNCHANGED <<registry, frame, tickerC, cycles, regAtStart, issued, completedSets, lastWeather, server>>

\* http.Handle("/metrics", ...); http.ListenAndServe(...)
ListenAndServe ==
    /\ pc["main"] = "main_listen"
    /\ pc' = [pc EXCEPT !["main"] = "main_serving"]
    /\ UNCHANGED <<registry, frame, tickerC, cycles, regAtStart, issued, completedSets, lastWeather, server>>

\* The runtime timer fires: a tick is buffered in ticker.C, or dropped when
\* the one-slot buffer is full.  Ticks are modelled while a cycle can still
\* start or is running.
TimerFires ==
    /\ pc["ticker"] # "ticker_off"
    /\ tickerC = 0
    /\ cycles < MaxCycles \/ pc["ticker"] \in Refreshing
    /\ tickerC' = 1
    /\ UNCHANGED <<registry, pc, frame, cycles, regAtStart, issued, completedSets, lastWeather, server>>

\* for range ticker.C { updateMetrics(...) }
TickerReceive ==
    /\ pc["ticker"] = "ticker_wait"
    /\ tickerC > 0
    /\ cycles < MaxCycles
    /\ tickerC' = tickerC - 1
    /\ UpdateMetricsCall("ticker")
    /\ UNCHANGED <<registry, completedSets, lastWeather, server>>

----------------------------------------------------------------------------
(* The /metrics handler.  promhttp gathers the registered vectors one at a  *)
(* time and streams each vector's children into the response; the response *)
(* is the union of the batches.  Each batch is read while the collector    *)
(* may be anywhere in a cycle.  snap is the batch just gathered, snapHead  *)
(* the first batch of the same response.                                   *)

\* The children of one vector and their values as they are now.
Collect(reg, series) == { e \in reg : e.series = series }

\* ScrapeBegin with the server started in a goroutine at the top of main.
ScrapeBeginBeforeInitialFetch ==
    /\ scrapePos = 0
    /\ scrapePos' = 1
    /\ snap' = {}
    /\ snapHead' = {}
    /\ UNCHANGED <<registry, pc, frame, tickerC, cycles, regAtStart, issued, completedSets, lastWeather>>

\* A scrape request arrives.
ScrapeBegin ==
    /\ pc["main"] = "main_serving"
    /\ scrapePos = 0
    /\ scrapePos' = 1
    /\ snap' = {}
    /\ snapHead' = {}
    /\ UNCHANGED <<registry, pc, frame, tickerC, cycles, regAtStart, issued, completedSets, lastWeather>>

\* ScrapeCollect under a lock that updateMetrics holds from call to return.
ScrapeCollectBetweenCycles ==
    /\ Idle
    /\ scrapePos \in 1..NumRegistered
    /\ snap' = Collect(registry, Registered[scrapePos])
    /\ snapHead' = IF scrapePos = 1 THEN Collect(registry, Registered[1]) ELSE snapHead
    /\ scrapePos' = scrapePos + 1
    /\ UNCHANGED <<registry, pc, frame, tickerC, cycles, regAtStart, issued, completedSets, lastWeather>>

\* The next vector is gathered into the response.
ScrapeCollect ==
    /\ scrapePos \in 1..NumRegistered
    /\ snap' = Collect(registry, Registered[scrapePos])
    /\ snapHead' = IF scrapePos = 1 THEN Collect(registry, Registered[1]) ELSE snapHead
    /\ scrapePos' = scrapePos + 1
    /\ UNCHANGED <<registry, pc, frame, tickerC, cycles, regAtStart, issued, completedSets, lastWeather>>

\* The response is complete and the handler returns.
ScrapeRespond ==
    /\ scrapePos = NumRegistered + 1
    /\ scrapePos' = 0
    /\ snap' = {}
    /\ snapHead' = {}
    /\ UNCHANGED <<registry, pc, frame, tickerC, cycles, regAtStart, issued, completedSets, lastWeather>>

----------------------------------------------------------------------------
(* Specifications *)

\* One step of a goroutine inside updateMetrics, the upstream answering
\* from the response sets W (weather) and P (pollution).
UpdateMetricsStep(p, W, P) ==
    \/ \E r \in W : WeatherResponse(p, r)
    \/ WeatherWith(p)
    \/ WeatherSet(p)
    \/ ConditionIf(p)
    \/ ConditionWith(p)
    \/ ConditionSet(p)
    \/ LogWeatherError(p)
    \/ PollutionRequest(p)
    \/ \E r \in P : PollutionResponse(p, r)
    \/ PollutionWith(p)
    \/ PollutionSet(p)
    \/ LogPollutionError(p)
    \/ UpdateMetricsReturn(p)

Schedule ==
    \/ InitialFetch
    \/ StartTicker
    \/ ListenAndServe
    \/ TimerFires
    \/ TickerReceive

Scrape ==
    \/ ScrapeBegin
    \/ ScrapeCollect
    \/ ScrapeRespond

\* The whole process, scrapes included, over a sample of upstream responses.
Next ==
    \/ Schedule
    \/ \E p \in Procs : UpdateMetricsStep(p, ServeWeatherResponses, ServePollutionResponses)
    \/ Scrape

Spec == Init /\ [][Next]_vars

\* The collector side alone (scrapes never write), over every response.
NextCollector ==
    \/ Schedule
    \/ \E p \in Procs : UpdateMetricsStep(p, WeatherResponses, PollutionResponses)

SpecCollector == Init /\ [][NextCollector]_vars

\* The whole process again, each fetch either failing or succeeding.
NextLive ==
    \/ Schedule
    \/ \E p \in Procs : UpdateMetricsStep(p, LiveWeatherResponses, LivePollutionResponses)
    \/ Scrape

\* The Go scheduler runs every runnable goroutine, the runtime timer keeps
\* firing, and every upstream request is answered.
Fairness ==
    /\ \A p \in Procs :
          WF_vars(UpdateMetricsStep(p, LiveWeatherResponses, LivePollutionResponses))
    /\ WF_vars(InitialFetch)
    /\ WF_vars(StartTicker)
    /\ WF_vars(ListenAndServe)
    /\ WF_vars(TimerFires)
    /\ WF_vars(TickerReceive)

FairSpec == Init /\ [][NextLive]_vars /\ Fairness

----------------------------------------------------------------------------
(* Properties *)

\* The observations a weather payload stands for: one per reading, labelled
\* with the decimal station id.
WeatherObservations(w) ==
    LET st == <<Itoa(w.ID)>> IN
    { Entry("ow_weather_temp", st, w.Main.Temp),
      Entry("ow_weather_feels_like", st, w.Main.FeelsLike),
      Entry("ow_weather_temp_min", st, w.Main.TempMin),
      Entry("ow_weather_temp_max", st, w.Main.TempMax),
      Entry("ow_weather_pressure", st, w.Main.Pressure),
      Entry("ow_weather_humidity", st, w.Main.Humidity),
      Entry("ow_weather_sea_level", st, w.Main.SeaLevel),
      Entry("ow_weather_grnd_level", st, w.Main.GrndLevel),
      Entry("ow_weather_visibility", st, w.Visibility),
      Entry("ow_weather_wind_speed", st, w.Wind.Speed),
      Entry("ow_weather_wind_deg", st, w.Wind.Deg),
      Entry("ow_weather_clouds", st, w.Clouds.All) }

\* The condition observation of a weather payload: none for an empty list.
ConditionObservation(w) ==
    IF Len(w.Weather) = 0 THEN {}
    ELSE { Entry("ow_weather_condition",
                 <<Itoa(w.ID), w.Weather[1].Main, w.Weather[1].Description>>, 1) }

PollutionPart(reg) == { e \in reg : e.series \in Range(PollutionSeries) }

ConditionPart(reg) == { e \in reg : e.series = owWeatherCondition }

\* Positions of a cycle after fetchWeatherData has returned its station.
AfterWeather ==
    { "weather_return", "pollution_get", "pollution_with", "pollution_set",
      "pollution_err", "update_return" }

ErrorPositions == { "weather_err", "pollution_err" }

\* C1: a cycle whose weather fetch fails (transport error, non-200 status,
\* undecodable body) ends with the registry exactly as it was when the cycle
\* started, having issued the weather request and no pollution request.
C1_FailedWeatherLeavesRegistry ==
    [][ \A p \in Procs :
          (pc[p] = "weather_err" /\ pc'[p] # "weather_err")
            => /\ registry' = regAtStart
               /\ issued' = <<"weather">>
               /\ pc'[p] = Continuation(p) ]_vars

\* A second cycle fails on HTTP 401 with observations already in the registry.
C1_Witness ==
    \E p \in Procs :
      /\ pc[p] = "weather_err"
      /\ frame[p].err = ErrStatus(401)
      /\ registry # {}

\* C2: when the weather fetch succeeds and the pollution fetch then fails,
\* the registry holds this cycle's weather observations and every pollution
\* series is exactly as it was when the cycle started.
C2_PollutionFailureKeepsWeather ==
    \A p \in Procs :
      pc[p] = "pollution_err"
        => /\ WeatherObservations(frame[p].weather) \subseteq registry
           /\ ConditionObservation(frame[p].weather) \subseteq registry
           /\ PollutionPart(registry) = PollutionPart(regAtStart)

\* The failing pollution fetch follows new weather readings, with pollution
\* observations of an earlier cycle in the registry.
C2_Witness ==
    \E p \in Procs :
      /\ pc[p] = "pollution_err"
      /\ PollutionPart(regAtStart) # {}
      /\ ~(WeatherObservations(frame[p].weather) \subseteq regAtStart)

\* C3 (amended): a fetch fails on status exactly when the response status is
\* not 200, and the error carries that status; a 200 response with a
\* decodable body is never a failure, and only such a response lets the
\* cycle go on to its writes.
C3_StatusFailureIffNot200 ==
    \A p \in Procs :
      LET f == frame[p] IN
      /\ pc[p] \in ErrorPositions
           => /\ (f.err.kind = "status") <=> (f.resp.arrived /\ f.resp.status # 200)
              /\ f.err.kind = "status" => f.err.code = f.resp.status
              /\ ~(f.resp.arrived /\ f.resp.status = 200 /\ f.resp.body.decodes)
      /\ pc[p] \in Refreshing \ (ErrorPositions \cup {"weather_get"})
           => f.resp.arrived /\ f.resp.status = 200 /\ f.resp.body.decodes

\* A 201 response with a decodable body has been classified.
C3_Witness ==
    \E p \in Procs :
      /\ pc[p] \in ErrorPositions
      /\ frame[p].resp.arrived
      /\ frame[p].resp.status = 201
      /\ frame[p].resp.body.decodes

\* C3 as claimed: status failure exactly for a status outside 200..299, and
\* every 2xx response with a decodable body is a success.
C3_StatusFailureIffNot2xx ==
    \A p \in Procs :
      LET f == frame[p] IN
      pc[p] \in ErrorPositions
        => /\ (f.err.kind = "status")
                <=> (f.resp.arrived /\ f.resp.status \notin 200..299)
           /\ ~(f.resp.arrived /\ f.resp.status \in 200..299 /\ f.resp.body.decodes)

\* The entries stored under one key.
At(reg, series, labels) == { e \in reg : Key(e) = << series, labels >> }

SetPositions == { "weather_set", "cond_set", "pollution_set" }

\* The key and the value of the Set a goroutine is about to perform.
WritingEntry(p) ==
    LET f == frame[p] IN
    CASE pc[p] = "weather_set" ->
           Entry(WeatherSeries[f.i], <<f.station>>, WeatherField(f.weather, f.i))
      [] pc[p] = "cond_set" ->
           Entry(owWeatherCondition, ConditionLabels(f), 1)
      [] pc[p] = "pollution_set" ->
           Entry(PollutionSeries[f.i], <<f.station>>, PollutionField(f.pollution.List[1], f.i))

\* C4 (amended): every entry a scrape gathers carries a value stored by a
\* completed Set for its key, or is the 0 of a child that WithLabelValues has
\* just created and that no Set has written yet; a key that has been Set
\* never shows a value no Set stored.
C4_GatheredValuesWereSet ==
    [][ scrapePos' # scrapePos
          => \A e \in snap' :
                \/ e \in completedSets
                \/ /\ e.value = 0
                   /\ \A c \in completedSets : Key(c) # Key(e) ]_vars

\* A scrape gathers, while a cycle is writing, a key whose value the cycle
\* has already replaced.
C4_Witness ==
    /\ \E p \in Procs : pc[p] \in Refreshing
    /\ \E e \in snap : e.value # 0 /\ e \in registry /\ e \notin regAtStart

\* C4 as claimed: every gathered entry carries a value stored by a completed
\* Set for its key.
C4_EveryGatheredValueWasSet ==
    \A e \in snap : e \in completedSets

\* C5: the key set of the registry only grows, and a stored value changes
\* only when a Set for that very key replaces it, whatever the cycles that
\* follow (failed, with empty lists, for another station or condition).
C5_KeysOnlyGrow ==
    [][ \A e \in registry :
          \/ e \in registry'
          \/ \E p \in Procs :
                /\ pc[p] \in SetPositions
                /\ Key(WritingEntry(p)) = Key(e)
                /\ WritingEntry(p) \in registry' ]_vars

\* A cycle for station 7 has completed with the series of station 42, and
\* its condition, still stored.
C5_Witness ==
    \E p \in Procs :
      /\ pc[p] = "update_return"
      /\ frame[p].station = "7"
      /\ \E e \in registry : e.series = "ow_weather_temp" /\ e.labels = <<"42">>
      /\ \E e \in registry : e.series = owWeatherCondition /\ e.labels[1] = "42"

\* The number of weather gauges the running call has Set so far.
WeatherSetSoFar(p) ==
    CASE pc[p] \in {"weather_with", "weather_set"} -> frame[p].i - 1
      [] pc[p] \in {"cond_if", "cond_with", "cond_set"} \cup AfterWeather -> NumWeather
      [] OTHER -> 0

\* C6: a key has exactly one entry, and once a Set has run the entry holds
\* the value of that Set: the value it replaced is gone.
C6_LastWriteWins ==
    /\ Cardinality(Keys(registry)) = Cardinality(registry)
    /\ \A p \in Procs : \A j \in 1..WeatherSetSoFar(p) :
          At(registry, WeatherSeries[j], <<frame[p].station>>)
            = { Entry(WeatherSeries[j], <<frame[p].station>>,
                      WeatherField(frame[p].weather, j)) }

\* The temperature of a station has just been overwritten with another value.
C6_Witness ==
    \E p \in Procs :
      /\ pc[p] = "weather_with"
      /\ frame[p].i = 2
      /\ \E e \in regAtStart :
            /\ Key(e) = << "ow_weather_temp", <<frame[p].station>> >>
            /\ e.value # 0
            /\ e.value # frame[p].weather.Main.Temp

\* C7 as claimed: once the weather writes of a cycle are done, the only
\* condition series of that station reading 1 is the one labelled from the
\* first condition of this response.
C7_OnlyLatestConditionReadsOne ==
    \A p \in Procs :
      (pc[p] = "weather_return" /\ Len(frame[p].weather.Weather) > 0)
        => \A e \in ConditionPart(registry) :
              (e.labels[1] = frame[p].station /\ e.value = 1)
                => {e} = ConditionObservation(frame[p].weather)

\* C8: a weather response with an empty condition list writes no condition
\* observation (the stored condition series are as they were when the cycle
\* started), still writes the twelve station series, and still goes on to
\* the pollution fetch.
C8_EmptyConditionListSkips ==
    \A p \in Procs :
      (pc[p] \in AfterWeather /\ Len(frame[p].weather.Weather) = 0)
        => /\ ConditionPart(registry) = ConditionPart(regAtStart)
           /\ WeatherObservations(frame[p].weather) \subseteq registry
           /\ pc[p] = "weather_return" => ENABLED PollutionRequest(p)
           /\ pc[p] # "weather_return" => issued = <<"weather", "pollution">>

\* The pollution request of a cycle with no condition is in flight, with a
\* condition of an earlier cycle stored.
C8_Witness ==
    \E p \in Procs :
      /\ pc[p] = "pollution_get"
      /\ Len(frame[p].weather.Weather) = 0
      /\ \E e \in ConditionPart(registry) : e.labels[1] = frame[p].station
      /\ ~(WeatherObservations(frame[p].weather) \subseteq regAtStart)

WeatherWritePositions ==
    { "weather_with", "weather_set", "cond_if", "cond_with", "cond_set" }

\* C9: once the pollution request of a cycle has been issued, every weather
\* observation of the cycle (twelve station series, and the condition when
\* there is one) is in the registry and no weather write is pending.
C9_WeatherWrittenBeforePollution ==
    \A p \in Procs :
      (pc[p] \in Refreshing /\ "pollution" \in Range(issued))
        => /\ pc[p] \notin WeatherWritePositions
           /\ WeatherObservations(frame[p].weather) \subseteq registry
           /\ ConditionObservation(frame[p].weather) \subseteq registry

\* A pollution request is in flight after a cycle that changed the readings
\* and the condition.
C9_Witness ==
    \E p \in Procs :
      /\ pc[p] = "pollution_get"
      /\ regAtStart # {}
      /\ ~(WeatherObservations(frame[p].weather) \subseteq regAtStart)
      /\ ConditionObservation(frame[p].weather) # {}
      /\ ~(ConditionObservation(frame[p].weather) \subseteq regAtStart)

\* C10: given that each fetch returns, every refresh cycle, whatever the
\* outcome of its fetches, hands control back to its caller (the collector
\* is Idle again); while cycles remain, the waiting ticker loop starts the
\* next one; and once the server listens, a scrape can always be served.
C10_CycleAlwaysReturns ==
    /\ \A p \in Procs : (pc[p] \in Refreshing) ~> (pc[p] = Continuation(p))
    /\ (pc["ticker"] = "ticker_wait" /\ cycles < MaxCycles) ~> (pc["ticker"] = "weather_get")
    /\ <>(pc["main"] = "main_serving")
    /\ [](pc["main"] = "main_serving" => ENABLED Scrape)
    /\ [][pc["main"] = "main_serving" => pc'["main"] = "main_serving"]_vars

\* The ticker loop has started a cycle after an initial cycle that failed
\* (nothing was ever written), while a scrape is being served.
C10_Witness ==
    /\ pc["ticker"] = "weather_get"
    /\ cycles = 2
    /\ registry = {}
    /\ scrapePos > 0

----------------------------------------------------------------------------
(* Requests per cycle.                                                     *)

\* C11: a cycle issues one weather request first and at most one pollution
\* request after it, never more than two requests and never a repeat; a
\* cycle whose weather fetch failed returns with the weather request as its
\* only request.
C11_RequestsPerCycle ==
    [][ /\ Len(issued') <= 2
        /\ cycles' # cycles => issued' = << "weather" >>
        /\ (cycles' = cycles /\ issued' # issued) =>
              /\ issued = << "weather" >>
              /\ issued' = << "weather", "pollution" >>
              /\ \E p \in Procs : pc[p] = "weather_return" /\ frame[p].err = NoError
        /\ \A p \in Procs :
              pc[p] = "weather_err" =>
                 /\ issued = << "weather" >>
                 /\ pc'[p] # pc[p] => (pc'[p] = Continuation(p) /\ issued' = issued)
      ]_vars

\* A second cycle has failed its pollution fetch after both requests, and
\* the cycle before it issued requests as well.
C11_Witness ==
    \E p \in Procs :
        /\ pc[p] = "pollution_err"
        /\ cycles = 2
        /\ issued = << "weather", "pollution" >>

----------------------------------------------------------------------------
(* Station label of the pollution observations.                            *)

\* The observations a pollution list entry stands for under a station label.
PollutionObservations(data, station) ==
    { Entry("ow_air_pollution_aqi", <<station>>, data.Main.AQI),
      Entry("ow_air_pollution_co", <<station>>, data.Components.CO),
      Entry("ow_air_pollution_no", <<station>>, data.Components.NO),
      Entry("ow_air_pollution_no2", <<station>>, data.Components.NO2),
      Entry("ow_air_pollution_o3", <<station>>, data.Components.O3),
      Entry("ow_air_pollution_so2", <<station>>, data.Components.SO2),
      Entry("ow_air_pollution_pm2_5", <<station>>, data.Components.PM25),
      Entry("ow_air_pollution_pm10", <<station>>, data.Components.PM10),
      Entry("ow_air_pollution_nh3", <<station>>, data.Components.NH3) }

\* Positions of a cycle whose two fetches have both succeeded.
BothSucceeded == { "pollution_with", "pollution_set", "update_return" }

\* The number of pollution gauges the cycle of p has set so far.
PollutionSetSoFar(p) ==
    IF pc[p] = "update_return"
    THEN (IF Len(frame[p].pollution.List) > 0 THEN NumPollution ELSE 0)
    ELSE frame[p].i - 1

\* C12: in a cycle whose two fetches both succeeded, the weather observations
\* carry the decimal string of the id of that cycle's weather response, and
\* so does every pollution observation the cycle has written: each pollution
\* gauge set so far sits under that label, and no pollution entry under any
\* other label differs from what it was at the start of the cycle.
C12_PollutionUsesCycleStation ==
    \A p \in Procs :
        pc[p] \in BothSucceeded =>
            LET st == Itoa(frame[p].weather.ID) IN
            /\ frame[p].weather = lastWeather
            /\ WeatherObservations(frame[p].weather) \subseteq registry
            /\ \A j \in 1..PollutionSetSoFar(p) :
                   Entry(PollutionSeries[j], <<st>>,
                         PollutionField(frame[p].pollution.List[1], j)) \in registry
            /\ \A e \in PollutionPart(registry) \ PollutionPart(regAtStart) :
                   e.labels = <<st>>

\* The cycle before wrote pollution observations for station 42; this cycle
\* got id 7 and has written its nine pollution observations under "7".
C12_Witness ==
    \E p \in Procs :
        /\ pc[p] = "update_return"
        /\ frame[p].weather.ID = 7
        /\ \E e \in PollutionPart(regAtStart) : e.labels = <<"42">>
        /\ Len(frame[p].pollution.List) > 0
        /\ PollutionObservations(frame[p].pollution.List[1], "7") \subseteq registry
        /\ PollutionPart(registry) \ PollutionPart(regAtStart) # {}

----------------------------------------------------------------------------
(* The pollution list.                                                     *)

\* C13: when fetchAirPollutionData returns nil, the pollution part of the
\* registry is what it was at the start of the cycle with the station's nine
\* series replaced by the observations of the first list entry alone; with
\* an empty list the pollution part is what it was at the start of the
\* cycle, and the fetch has returned no error.
C13_FirstListEntryOnly ==
    \A p \in Procs :
        pc[p] = "update_return" =>
            LET list == frame[p].pollution.List
                st == frame[p].station
                kept == { e \in PollutionPart(regAtStart) : e.labels # <<st>> }
            IN /\ frame[p].err = NoError
               /\ IF Len(list) > 0
                  THEN /\ PollutionPart(registry) =
                            kept \cup PollutionObservations(list[1], st)
                       /\ Cardinality(PollutionObservations(list[1], st)) = NumPollution
                  ELSE PollutionPart(registry) = PollutionPart(regAtStart)

\* The first cycle decoded a list of two entries and wrote the first one;
\* the second cycle decoded an empty list and is returning without error.
C13_Witness ==
    \E p \in Procs :
        /\ pc[p] = "update_return"
        /\ cycles = 2
        /\ frame[p].resp.status = StatusOK
        /\ Len(frame[p].pollution.List) = 0
        /\ PollutionPart(registry) = PollutionObservations(PollutionEntry(2), "42")

----------------------------------------------------------------------------
(* Scrapes against a running cycle.                                        *)

\* C14: a response is not cycle-atomic.  Nothing orders the gather steps of
\* a scrape against the writes of a cycle: while a response is being built
\* its next batch can be gathered at every position of a running cycle, the
\* batch gathered is the vector's children as the cycle has written them so
\* far, and the batches gathered earlier stay as they were read.
C14_ScrapeInterleavesWithCycle ==
    /\ [](scrapePos \in 1..NumRegistered => ENABLED ScrapeCollect)
    /\ [][ (scrapePos \in 1..NumRegistered /\ scrapePos' = scrapePos + 1) =>
             /\ snap' = Collect(registry, Registered[scrapePos])
             /\ scrapePos > 1 => snapHead' = snapHead ]_vars

\* One response holds the temperature of the first cycle's reading and the
\* cloud cover of the second cycle's reading for the same station.
C14_Witness ==
    /\ scrapePos = NumWeather + 1
    /\ cycles = 2
    /\ Entry("ow_weather_temp", <<"42">>,
             WeatherBody(42, 1, <<Clouds>>).Main.Temp) \in snapHead
    /\ Entry("ow_weather_clouds", <<"42">>,
             WeatherBody(42, 2, <<Rain, Clouds>>).Clouds.All) \in snap

----------------------------------------------------------------------------
(* One cycle at a time.                                                    *)

\* C15: at most one updateMetrics call is executing at any time, so the
\* registry has a single writer; the ticker goroutine exists only once the
\* initial call of main has returned; and a tick that elapses while a cycle
\* is running waits in the one-slot channel of the ticker, the goroutine that
\* would receive it being the one that runs the cycle.
C15_OneCycleAtATime ==
    /\ Cardinality({ p \in Procs : pc[p] \in Refreshing }) <= 1
    /\ pc["ticker"] # "ticker_off" =>
           /\ pc["main"] \in { "main_listen", "main_serving" }
           /\ cycles >= 1
    /\ pc["main"] \in Refreshing => cycles = 1
    /\ tickerC \in { 0, 1 }
    /\ ENABLED TickerReceive => Idle

\* The ticker goroutine is in the middle of a cycle and the next tick has
\* already elapsed.
C15_Witness ==
    /\ pc["ticker"] \in Refreshing
    /\ tickerC = 1

----------------------------------------------------------------------------
(* The endpoint and the initial cycle.                                     *)

\* Positions of main before http.ListenAndServe is serving.
BeforeServing == Refreshing \cup { "main_initial", "main_go", "main_listen" }

\* C16: no scrape is served before the initial cycle has completed: while
\* main is before or inside its initial updateMetrics call, or has not yet
\* reached ListenAndServe, no scrape can begin and none is in progress; a
\* scrape in progress finds main serving and the initial cycle returned.
C16_NoScrapeBeforeInitialCycle ==
    /\ pc["main"] \in BeforeServing =>
           /\ scrapePos = 0
           /\ snap = {}
           /\ ~ ENABLED ScrapeBegin
    /\ (scrapePos > 0 \/ ENABLED ScrapeBegin) =>
           /\ pc["main"] = "main_serving"
           /\ cycles >= 1
           /\ pc["ticker"] # "ticker_off"

\* A scrape is gathering after an initial cycle that wrote the registry and
\* before any periodic cycle has started.
C16_Witness ==
    /\ scrapePos > 1
    /\ snap # {}
    /\ cycles = 1
    /\ Idle

----------------------------------------------------------------------------
(* The registry between cycles.                                            *)

\* The entries of the given vectors stored under a station label.
StationPart(reg, names, station) ==
    { e \in reg : e.series \in Range(names) /\ e.labels = <<station>> }

\* C17: whenever no cycle is running and a weather fetch has succeeded, the
\* twelve weather series of the station of the latest successful weather
\* response hold exactly the observations of that response; and for every
\* station with pollution series, the nine hold the observations of one
\* pollution list entry.
C17_IdleRegistryIsUnmixed ==
    (Idle /\ lastWeather # ZeroWeather) =>
        /\ StationPart(registry, WeatherSeries, Itoa(lastWeather.ID)) =
              WeatherObservations(lastWeather)
        /\ Cardinality(WeatherObservations(lastWeather)) = NumWeather
        /\ \A e \in PollutionPart(registry) :
              \E r \in Readings :
                 StationPart(registry, PollutionSeries, e.labels[1]) =
                    PollutionObservations(PollutionEntry(r), e.labels[1])

\* Two cycles for station 42 have completed: the second replaced all twelve
\* weather values and the nine pollution values the first had written.
C17_Witness ==
    /\ Idle
    /\ cycles = 2
    /\ lastWeather.Main.Temp = WeatherBody(42, 2, <<Clouds>>).Main.Temp
    /\ \E w \in WeatherBodies :
          /\ w.Main.Temp = WeatherBody(42, 1, <<Clouds>>).Main.Temp
          /\ WeatherObservations(w) \subseteq regAtStart
    /\ PollutionObservations(PollutionEntry(1), "42") \subseteq regAtStart
    /\ PollutionObservations(PollutionEntry(2), "42") \subseteq registry

====
